---- MODULE Spec2Model ----
(***************************************************************************)
(* The multi-instance simulator supervisor of src/app.py: the registry     *)
(* simulator_processes, the request handlers api_simulator_start, _stop,   *)
(* _stop_all and _status, and the atexit hook cleanup_all_simulators.      *)
(*                                                                         *)
(* The Flask development server (app.run, src/app.py:2053) serves every    *)
(* request on a thread of its own, and the handlers take no lock, so each  *)
(* handler is cut into steps at its accesses to shared state: the registry *)
(* dictionary, the spawned processes and the temp config files.  Steps     *)
(* that touch only a request's local data are merged into the next step    *)
(* that touches shared state.                                              *)
(*                                                                         *)
(* Environment: a spawned process may exit at any time (ProcExit); the     *)
(* calls the code wraps in try/except for that reason may raise:           *)
(* Popen (1511), terminate/kill (1571, 1577, 1765, 1769).  Removing a temp *)
(* file of the working directory is taken to succeed.                      *)
(*                                                                         *)
(* The second part is the engine each spawned process runs, GPSSimulator   *)
(* of src/simulatore/device_simulator.py: start_simulation,                *)
(* stop_simulation and the movement loop simulate_movement on its thread.  *)
(*                                                                         *)
(* The third part is the functions without state: the report URL,          *)
(* steps_needed, generate_circular_path and generate_route_path of the     *)
(* engine, and create_simulator_path of                                    *)
(* src/simulatore/google_maps_route.py.                                    *)
(***************************************************************************)
EXTENDS FiniteSets, Integers, Naturals, Sequences, TLC

\* ---------------------------------------------------------------- bounds
MaxSpawns == 2                  \* processes spawned in one behaviour
Workers == {1, 2}               \* request threads of the web server
MaxInFlightAtExit == 1          \* handlers still running when exit begins
IMEIs == {"i1", "i2"}           \* uniqueHardwareId values a request may carry
MaxThreads == 2                 \* start_simulation calls that start a thread
MaxSends == 3                   \* samples handed to the reporter
PathLen == 3                    \* waypoints of the engine's path
StepsNeeded == 2                \* ticks of one segment (steps_needed)
FloatBits == 4                  \* significant bits of a float
PipeCapacity == 4               \* log records the stdout pipe of a unit holds

\* The device directory (Traccar): external id -> device.  "d0" is unknown.
KnownDevices == {"d1"}
DeviceIds == KnownDevices \cup {"d0"}

NoImei == "none"                \* a request body without an imei field
NoJson == "nojson"              \* a request without a JSON body
NoProc == 0

\* The start parameters the operator UI sends besides device_id and imei
\* (request.get_json(), src/app.py:1475).  path is the number of waypoints
\* of the request's 'path' list, 0 for an empty or missing list.
DefaultInterval == 30           \* data.get('update_interval', 30)
DefaultSpeed == 50              \* data.get('speed_kmh', 50)
\* variation = 0.001, the unit of the route coordinates
Variation == 1
\* if self.packets_sent % 10 == 0: one line of progress
LogEvery == 10
DefaultParams ==
    [simulation_type |-> "circular", path |-> 0,
     update_interval |-> DefaultInterval, speed_kmh |-> DefaultSpeed]
AllParams ==
    {DefaultParams,
     [DefaultParams EXCEPT !.simulation_type = "custom"],
     [DefaultParams EXCEPT !.simulation_type = "custom", !.path = 2],
     [DefaultParams EXCEPT !.update_interval = 0],
     [DefaultParams EXCEPT !.speed_kmh = -1]}
\* a request body: the start parameters with the device id and the imei
Data(device_id, imei, c) ==
    [imei |-> imei, device_id |-> device_id,
     simulation_type |-> c.simulation_type, path |-> c.path,
     update_interval |-> c.update_interval, speed_kmh |-> c.speed_kmh]
NoData == Data("d0", NoImei, DefaultParams)

VARIABLES
    simulator_processes,  \* the registry: Python dict, in insertion order
    procs,                \* spawned processes, pid = index
    files,                \* temp_simulator_<imei>.json: imei -> content
    pc, op, req,          \* per worker: position, handler, request body
    process,              \* per worker: local `process` / `proc`
    snap,                 \* per worker: list(...) snapshot being iterated
    active_simulators,    \* per worker: status() result under construction
    stopped_count, errors,\* per worker: stop_all() accumulators
    ret,                  \* per worker: HTTP status of the finished handler
    called_alive,         \* history: imei was registered and alive at call
    touched,              \* history: the handler changed shared state
    pruned,               \* history: entries status() found dead
    really_stopped,       \* history: nested stops that returned success
    threaded,             \* the server runs handlers concurrently
    configs,              \* the start parameters the operator UI sends
    exiting,              \* the interpreter is shutting down
    hook_pc, hook_idx, hook_len, hook_info, hook_reg0, hook_failed,
    \* one GPSSimulator of src/simulatore/device_simulator.py
    is_running,           \* self.is_running
    thread,               \* self.thread: index into loops, 0 for None
    loops,                \* the Thread objects running simulate_movement
    update_interval,      \* self.update_interval
    current_position_index,
    current_position,     \* serial of the sample in current_lat/lng/...
    total_distance,       \* successful ticks added to self.total_distance
    packets_sent, packets_failed,
    caller,               \* position of the thread calling start/stop
    sends,                \* history: samples handed to the reporter
    ever_ok,              \* history: some send succeeded
    stop_requested,       \* history: stop_simulation cleared is_running
    stop_returned,        \* history: that stop_simulation has returned
    path,                 \* len(self.path)
    piped,                \* sys.stdout is the pipe of the supervisor
    stdout,               \* log records that pipe holds
    bases,                \* history: waypoints a reported sample of this
                          \* lap was interpolated from
    \* one call of a function of the engine that has no state
    called,               \* the function
    args,                 \* its arguments
    result                \* <<>> before the call returns, then <<value>>

wvars == <<pc, op, req, process, snap, active_simulators, stopped_count,
           errors, ret>>
hist == <<called_alive, touched, pruned, really_stopped>>
hvars == <<threaded, configs, exiting, hook_pc, hook_idx, hook_len,
           hook_info, hook_reg0, hook_failed>>
stats == <<packets_sent, packets_failed, total_distance, current_position,
           current_position_index>>
cvars == <<called, args, result>>
\* what is fixed when the engine is constructed and started
setup == <<path, piped>>
\* evars: what no step of the supervisor changes
evars == <<is_running, thread, loops, update_interval, stats, caller, sends,
           ever_ok, stop_requested, stop_returned, stdout, bases, setup,
           cvars>>
\* svars: what no step of the engine changes
svars == <<simulator_processes, procs, files, wvars, hist, hvars, setup,
           cvars>>
vars == <<svars, evars>>

\* ------------------------------------------------- the registry (a dict)
Keys(d) == {d[i].imei : i \in 1..Len(d)}
Has(d, k) == k \in Keys(d)
IndexOf(d, k) == CHOOSE i \in 1..Len(d) : d[i].imei = k
Get(d, k) == d[IndexOf(d, k)]
\* list(d.keys()): each key in the shape of an item without its value
KeyList(d) ==
    [i \in 1..Len(d) |->
        [imei |-> d[i].imei, process |-> NoProc, device_name |-> "d0",
         temp_config_file |-> NoImei]]
\* del d[k]
Del(d, k) == SelectSeq(d, LAMBDA e : e.imei # k)
\* d[k] = v : an existing key keeps its position, a new key is appended
Put(d, e) ==
    IF Has(d, e.imei)
    THEN [i \in 1..Len(d) |-> IF d[i].imei = e.imei THEN e ELSE d[i]]
    ELSE Append(d, e)

\* ------------------------------------------------------------- processes
\* main, src/simulatore/device_simulator.py:505-540: the waypoints of the
\* path the engine of a device entry gets: generate_circular_path returns
\* points + 1 waypoints (points defaults to 20), a custom entry its 'path'
EnginePath(device_config) ==
    IF device_config.simulation_type = "circular" THEN 21
    ELSE device_config.path
\* process.poll() is None
Polls(p) == procs[p].state # "dead"
SetState(p, s) == [procs EXCEPT ![p].state = s]
TempFileMutant(imei) == "i1"     \* one file for every unit
TempFile(imei) == imei          \* f'temp_simulator_{imei}.json'
NoFile == <<>>                  \* a file: <<>> if absent, else <<content>>
NoInfo == [imei |-> NoImei, process |-> NoProc, device_name |-> "d0",
           temp_config_file |-> NoImei]

InitRest ==
    /\ simulator_processes = <<>>
    /\ procs = <<>>
    /\ files = [i \in IMEIs |-> NoFile]
    /\ pc = [w \in Workers |-> "idle"]
    /\ op = [w \in Workers |-> "none"]
    /\ req = [w \in Workers |-> NoData]
    /\ process = [w \in Workers |-> NoProc]
    /\ snap = [w \in Workers |-> <<>>]
    /\ active_simulators = [w \in Workers |-> {}]
    /\ stopped_count = [w \in Workers |-> 0]
    /\ errors = [w \in Workers |-> 0]
    /\ ret = [w \in Workers |-> 0]
    /\ called_alive = [w \in Workers |-> FALSE]
    /\ touched = [w \in Workers |-> FALSE]
    /\ pruned = [w \in Workers |-> {}]
    /\ really_stopped = [w \in Workers |-> 0]
    /\ exiting = FALSE
    /\ hook_pc = "off"
    /\ hook_idx = 0
    /\ hook_len = 0
    /\ hook_info = NoInfo
    /\ hook_reg0 = <<>>
    /\ hook_failed = {}

\* GPSSimulator.__init__, src/simulatore/device_simulator.py:35-64
EngineInit ==
    /\ is_running = FALSE
    /\ thread = 0
    /\ loops = <<>>
    /\ current_position_index = 0
    /\ current_position = 0
    /\ total_distance = 0
    /\ packets_sent = 0
    /\ packets_failed = 0
    /\ caller = "idle"
    /\ sends = 0
    /\ ever_ok = FALSE
    /\ stop_requested = FALSE
    /\ stop_returned = FALSE
    /\ stdout = 0
    /\ bases = {}

\* the engine has a path of PathLen waypoints (main adds only engines with
\* a path, lines 536-537) and logs to a terminal
OnConsole == path = PathLen /\ piped = FALSE

NoCall == called = "none" /\ args = <<>> /\ result = <<>>

\* app.run(debug=True, host=..., port=...): threaded by default
Init ==
    /\ threaded = TRUE /\ configs = {DefaultParams} /\ InitRest
    /\ EngineInit /\ update_interval = DefaultInterval /\ NoCall
    /\ OnConsole
\* the same server taking one request at a time
InitSeq ==
    /\ threaded = FALSE /\ configs = {DefaultParams} /\ InitRest
    /\ EngineInit /\ update_interval = DefaultInterval /\ NoCall
    /\ OnConsole
\* one request at a time, with start parameters of every kind
InitParams ==
    /\ threaded = FALSE /\ configs = AllParams /\ InitRest
    /\ EngineInit /\ update_interval = DefaultInterval /\ NoCall
    /\ OnConsole
\* one engine, driven by calls of start_simulation and stop_simulation, with
\* an update_interval of its device entry: 0 and negative values are passed
\* on unchecked (line 45)
InitEngine ==
    /\ threaded = FALSE /\ configs = {DefaultParams} /\ InitRest
    /\ EngineInit /\ update_interval \in {-1, 0, DefaultInterval} /\ NoCall
    /\ OnConsole


\* --------------------------------------------------- history bookkeeping
Busy(w) == pc[w] \notin {"idle", "done"}
\* pc = "done" is the instant a handler returns: the response goes out
\* before any other step (Respond), so a state with a worker at "done" shows
\* the shared state exactly as it is when that handler returns.
Returning == \E w \in Workers : pc[w] = "done"
\* The server hands a request to any free thread; the threads being
\* interchangeable, the lowest free one takes it.  With threaded = FALSE
\* the server handles one request at a time.
Accepting(w) ==
    /\ pc[w] = "idle" /\ ~exiting /\ ~Returning
    /\ \A x \in Workers : x < w => pc[x] # "idle"
    /\ threaded \/ \A x \in Workers : pc[x] = "idle"
Running(w, o, at) ==
    pc[w] = at /\ op[w] \in o /\ hook_pc # "done" /\ ~Returning

\* ------------------------------------------------------------------ start
\* src/app.py:1494  proc.poll() is None -> 409
StartRejectMutant(p) == FALSE
StartReject(p) == Polls(p)

\* lines 1487-1488: traccar_api.get_device_by_id(device_id) finds a device
DeviceKnownMutant(device_id) == TRUE
DeviceKnown(device_id) == device_id \in KnownDevices

\* lines 1474-1489: field validation and the device directory lookup
StartRequest(w, device_id, imei) ==
    /\ Accepting(w)
    /\ op' = [op EXCEPT ![w] = "start"]
    /\ \E c \in configs : req' = [req EXCEPT ![w] = Data(device_id, imei, c)]
    /\ called_alive' = [called_alive EXCEPT ![w] =
            /\ Has(simulator_processes, imei)
            /\ Polls(Get(simulator_processes, imei).process)]
    /\ touched' = [touched EXCEPT ![w] = FALSE]
    /\ IF imei = NoImei
       THEN /\ pc' = [pc EXCEPT ![w] = "done"]
            /\ ret' = [ret EXCEPT ![w] = 400]
       ELSE IF ~DeviceKnown(device_id)
       THEN /\ pc' = [pc EXCEPT ![w] = "done"]
            /\ ret' = [ret EXCEPT ![w] = 404]
       ELSE /\ pc' = [pc EXCEPT ![w] = "start_check"]
            /\ ret' = [ret EXCEPT ![w] = 0]
    /\ UNCHANGED <<simulator_processes, procs, files, process, snap,
                   active_simulators, stopped_count, errors, pruned,
                   really_stopped, hvars, evars>>

\* line 1492: if imei in simulator_processes
StartCheck(w) ==
    /\ Running(w, {"start"}, "start_check")
    /\ pc' = [pc EXCEPT ![w] =
            IF Has(simulator_processes, req[w].imei)
            THEN "start_get" ELSE "start_write"]
    /\ UNCHANGED <<simulator_processes, procs, files, op, req, process, snap,
                   active_simulators, stopped_count, errors, ret,
                   called_alive, touched, pruned, really_stopped, hvars, evars>>

\* lines 1493-1495: proc = simulator_processes[imei]['process']; poll
StartGet(w) ==
    /\ Running(w, {"start"}, "start_get")
    /\ IF ~Has(simulator_processes, req[w].imei)
       THEN \* KeyError, caught at line 1542
            /\ pc' = [pc EXCEPT ![w] = "done"]
            /\ ret' = [ret EXCEPT ![w] = 500]
            /\ UNCHANGED process
       ELSE LET p == Get(simulator_processes, req[w].imei).process IN
            /\ process' = [process EXCEPT ![w] = p]
            /\ IF StartReject(p)
               THEN /\ pc' = [pc EXCEPT ![w] = "done"]
                    /\ ret' = [ret EXCEPT ![w] = 409]
               ELSE /\ pc' = [pc EXCEPT ![w] = "start_del"]
                    /\ UNCHANGED ret
    /\ UNCHANGED <<simulator_processes, procs, files, op, req, snap,
                   active_simulators, stopped_count, errors,
                   called_alive, touched, pruned, really_stopped, hvars, evars>>

\* line 1498: del simulator_processes[imei]
StartDel(w) ==
    /\ Running(w, {"start"}, "start_del")
    /\ IF ~Has(simulator_processes, req[w].imei)
       THEN /\ pc' = [pc EXCEPT ![w] = "done"]
            /\ ret' = [ret EXCEPT ![w] = 500]
            /\ UNCHANGED <<simulator_processes, touched>>
       ELSE /\ simulator_processes' = Del(simulator_processes, req[w].imei)
            /\ touched' = [touched EXCEPT ![w] = TRUE]
            /\ pc' = [pc EXCEPT ![w] = "start_write"]
            /\ UNCHANGED ret
    /\ UNCHANGED <<procs, files, op, req, process, snap, active_simulators,
                   stopped_count, errors, called_alive, pruned,
                   really_stopped, hvars, evars>>

\* lines 1692-1741: the device entry of the configuration.  A custom
\* simulation with no waypoints gets the default path of five (1730-1738);
\* the other types carry no 'path' key.
create_simulator_config(data) ==
    [device_id |-> data.device_id, imei |-> data.imei,
     update_interval |-> data.update_interval, speed_kmh |-> data.speed_kmh,
     simulation_type |-> data.simulation_type,
     path |-> IF data.simulation_type = "custom"
              THEN (IF data.path = 0 THEN 5 ELSE data.path)
              ELSE 0]

\* lines 1501-1506: create_simulator_config, write temp_simulator_<imei>.json
StartWrite(w) ==
    /\ Running(w, {"start"}, "start_write")
    /\ files' = [files EXCEPT ![TempFile(req[w].imei)] =
                    <<create_simulator_config(req[w])>>]
    /\ touched' = [touched EXCEPT ![w] = TRUE]
    /\ pc' = [pc EXCEPT ![w] = "start_spawn"]
    /\ UNCHANGED <<simulator_processes, procs, op, req, process, snap,
                   active_simulators, stopped_count, errors, ret,
                   called_alive, pruned, really_stopped, hvars, evars>>

\* lines 1509-1516 and 1536-1544: subprocess.Popen, or its failure.  The new
\* process loads the config file it is given (load_config,
\* src/simulatore/device_simulator.py:412-422, 493); the file is taken to be
\* read as the process starts, a missing file giving no configuration.
StartSpawn(w) ==
    /\ Running(w, {"start"}, "start_spawn")
    /\ \/ /\ Len(procs) < MaxSpawns
          /\ procs' = Append(procs, [imei |-> req[w].imei, state |-> "alive",
                                      config |-> files[TempFile(req[w].imei)]])
          /\ process' = [process EXCEPT ![w] = Len(procs) + 1]
          /\ pc' = [pc EXCEPT ![w] = "start_register"]
          /\ UNCHANGED <<files, ret>>
       \/ \* Popen raises: remove the temp file if it exists, return 500
          /\ files' = [files EXCEPT ![TempFile(req[w].imei)] = NoFile]
          /\ pc' = [pc EXCEPT ![w] = "done"]
          /\ ret' = [ret EXCEPT ![w] = 500]
          /\ UNCHANGED <<procs, process>>
    /\ UNCHANGED <<simulator_processes, op, req, snap, active_simulators,
                   stopped_count, errors, called_alive, touched, pruned,
                   really_stopped, hvars, evars>>

\* lines 1519-1534: simulator_processes[imei] = {...}; return success
StartRegister(w) ==
    /\ Running(w, {"start"}, "start_register")
    /\ simulator_processes' = Put(simulator_processes,
            [imei |-> req[w].imei, process |-> process[w],
             device_name |-> req[w].device_id,
             temp_config_file |-> TempFile(req[w].imei)])
    /\ pc' = [pc EXCEPT ![w] = "done"]
    /\ ret' = [ret EXCEPT ![w] = 200]
    /\ UNCHANGED <<procs, files, op, req, process, snap, active_simulators,
                   stopped_count, errors, called_alive, touched, pruned,
                   really_stopped, hvars, evars>>


\* ------------------------------------------------------------------- stop
\* src/app.py:1563  if imei not in simulator_processes -> 404
StopNotFoundMutant(d, imei) == d = <<>>
StopNotFound(d, imei) == ~Has(d, imei)

\* line 1624: result[1] == 200.  A success is a bare Response (line 1597),
\* not a (response, status) pair, so subscripting it raises TypeError,
\* which line 1628 catches; an error is a pair whose status is not 200.
TallyCounts(is_pair, code) == is_pair /\ code = 200

\* api_simulator_stop returns: to the client, or to the loop of stop_all
\* (where the callee's locals are gone)
FinishStop(w, o, is_pair, code) ==
    IF o = "stop"
    THEN /\ pc' = [pc EXCEPT ![w] = "done"]
         /\ ret' = [ret EXCEPT ![w] = code]
         /\ UNCHANGED <<stopped_count, errors, really_stopped>>
    ELSE /\ pc' = [pc EXCEPT ![w] = "stopall_loop"]
         /\ stopped_count' = [stopped_count EXCEPT ![w] =
                IF TallyCounts(is_pair, code) THEN @ + 1 ELSE @]
         /\ errors' = [errors EXCEPT ![w] =
                IF TallyCounts(is_pair, code) THEN @ ELSE @ + 1]
         /\ really_stopped' = [really_stopped EXCEPT ![w] =
                IF code = 200 THEN @ + 1 ELSE @]
         /\ UNCHANGED ret

\* lines 1556-1564 of the handler, for the request body `body`
StopEnter(w, o, body) ==
    IF body = NoJson THEN FinishStop(w, o, TRUE, 500)   \* data is None
    ELSE IF body = NoImei THEN FinishStop(w, o, TRUE, 400)
    ELSE IF StopNotFound(simulator_processes, body)
    THEN FinishStop(w, o, TRUE, 404)
    ELSE /\ pc' = [pc EXCEPT ![w] = "stop_get"]
         /\ UNCHANGED <<ret, stopped_count, errors, really_stopped>>

StopRequest(w, imei) ==
    /\ Accepting(w)
    /\ op' = [op EXCEPT ![w] = "stop"]
    /\ req' = [req EXCEPT ![w] = Data("d0", imei, DefaultParams)]
    /\ called_alive' = [called_alive EXCEPT ![w] = FALSE]
    /\ touched' = [touched EXCEPT ![w] = FALSE]
    /\ StopEnter(w, "stop", imei)
    /\ UNCHANGED <<simulator_processes, procs, files, process, snap,
                   active_simulators, pruned, hvars, evars>>

\* lines 1566-1567: proc_info = simulator_processes[imei]
StopGet(w) ==
    /\ Running(w, {"stop", "stop_all"}, "stop_get")
    /\ IF ~Has(simulator_processes, req[w].imei)
       THEN /\ FinishStop(w, op[w], TRUE, 500)
            /\ UNCHANGED process
       ELSE /\ process' = [process EXCEPT ![w] =
                    Get(simulator_processes, req[w].imei).process]
            /\ pc' = [pc EXCEPT ![w] = "stop_terminate"]
            /\ UNCHANGED <<ret, stopped_count, errors, really_stopped>>
    /\ UNCHANGED <<simulator_processes, procs, files, op, req, snap,
                   active_simulators, called_alive, touched, pruned, hvars, evars>>

\* Popen.terminate(): SIGTERM.  The signal only asks the process to exit
\* (signal_handler, src/simulatore/device_simulator.py:460-466); when and
\* whether it does is ProcExit.
Terminate(p) == procs

\* line 1574: process.wait(timeout=5) comes back, with the exit code or
\* with TimeoutExpired, whether or not the process has ended
GraceWaitEndsMutant(p) == ~Polls(p)     \* process.wait() with no timeout
GraceWaitEnds(p) == TRUE

\* lines 1571-1575: process.terminate(); process.wait(timeout=5): the
\* process ends within the grace period, or TimeoutExpired
StopWait(w) ==
    /\ Running(w, {"stop", "stop_all"}, "stop_terminate")
    /\ GraceWaitEnds(process[w])
    /\ procs' = Terminate(process[w])
    /\ pc' = [pc EXCEPT ![w] =
                IF Polls(process[w]) THEN "stop_kill" ELSE "stop_rmfile"]
    /\ UNCHANGED <<simulator_processes, files, op, req, process, snap,
                   active_simulators, stopped_count, errors, ret,
                   called_alive, touched, pruned, really_stopped, hvars, evars>>
\* lines 1580-1581: terminate raises
StopTerminateRaises(w) ==
    /\ Running(w, {"stop", "stop_all"}, "stop_terminate")
    /\ Polls(process[w])
    /\ procs' = Terminate(process[w])
    /\ pc' = [pc EXCEPT ![w] = "stop_rmfile"]
    /\ UNCHANGED <<simulator_processes, files, op, req, process, snap,
                   active_simulators, stopped_count, errors, ret,
                   called_alive, touched, pruned, really_stopped, hvars, evars>>
StopTerminate(w) == StopWait(w) \/ StopTerminateRaises(w)

\* lines 1577-1578: process.kill(); process.wait(); 1580-1581 on a raise
StopKill(w) ==
    /\ Running(w, {"stop", "stop_all"}, "stop_kill")
    /\ \/ /\ procs' = SetState(process[w], "dead")
          /\ touched' = [touched EXCEPT ![w] = TRUE]
       \/ /\ Polls(process[w])
          /\ UNCHANGED <<procs, touched>>
    /\ pc' = [pc EXCEPT ![w] = "stop_rmfile"]
    /\ UNCHANGED <<simulator_processes, files, op, req, process, snap,
                   active_simulators, stopped_count, errors, ret,
                   called_alive, pruned, really_stopped, hvars, evars>>

\* lines 1583-1589: remove proc_info's temp config file if it exists
StopRemoveFile(w) ==
    /\ Running(w, {"stop", "stop_all"}, "stop_rmfile")
    /\ files' = [files EXCEPT ![TempFile(req[w].imei)] = NoFile]
    /\ touched' = [touched EXCEPT ![w] = TRUE]
    /\ pc' = [pc EXCEPT ![w] = "stop_del"]
    /\ UNCHANGED <<simulator_processes, procs, op, req, process, snap,
                   active_simulators, stopped_count, errors, ret,
                   called_alive, pruned, really_stopped, hvars, evars>>

\* lines 1591-1604: del simulator_processes[imei]; return success
StopDel(w) ==
    /\ Running(w, {"stop", "stop_all"}, "stop_del")
    /\ IF ~Has(simulator_processes, req[w].imei)
       THEN /\ FinishStop(w, op[w], TRUE, 500)
            /\ UNCHANGED simulator_processes
       ELSE /\ simulator_processes' = Del(simulator_processes, req[w].imei)
            /\ FinishStop(w, op[w], FALSE, 200)
    /\ UNCHANGED <<procs, files, op, req, process, snap, active_simulators,
                   called_alive, touched, pruned, hvars, evars>>


\* ----------------------------------------------------------------- status
\* src/app.py:1443  process.poll() is None -> listed as running
StatusKeepsMutant(p) == TRUE
StatusKeeps(p) == Polls(p)

\* lines 1438-1441: active_simulators = {}; list(simulator_processes.items())
StatusRequest(w) ==
    /\ Accepting(w)
    /\ op' = [op EXCEPT ![w] = "status"]
    /\ snap' = [snap EXCEPT ![w] = simulator_processes]
    /\ active_simulators' = [active_simulators EXCEPT ![w] = {}]
    /\ pruned' = [pruned EXCEPT ![w] = {}]
    /\ called_alive' = [called_alive EXCEPT ![w] = FALSE]
    /\ touched' = [touched EXCEPT ![w] = FALSE]
    /\ pc' = [pc EXCEPT ![w] = "status_loop"]
    /\ UNCHANGED <<simulator_processes, procs, files, req, process,
                   stopped_count, errors, ret, really_stopped, hvars, evars>>

\* lines 1441-1462: one iteration of the loop, or the return after it
StatusLoop(w) ==
    /\ Running(w, {"status"}, "status_loop")
    /\ IF snap[w] = <<>>
       THEN /\ pc' = [pc EXCEPT ![w] = "done"]
            /\ ret' = [ret EXCEPT ![w] = 200]
            /\ UNCHANGED <<simulator_processes, snap, active_simulators,
                           pruned, touched>>
       ELSE LET e == Head(snap[w]) IN
            IF StatusKeeps(e.process)
            THEN /\ active_simulators' =
                        [active_simulators EXCEPT ![w] = @ \cup {e}]
                 /\ snap' = [snap EXCEPT ![w] = Tail(@)]
                 /\ UNCHANGED <<simulator_processes, pc, ret, pruned, touched>>
            ELSE IF ~Has(simulator_processes, e.imei)
            THEN \* del raises KeyError, caught at line 1461
                 /\ pc' = [pc EXCEPT ![w] = "done"]
                 /\ ret' = [ret EXCEPT ![w] = 500]
                 /\ UNCHANGED <<simulator_processes, snap, active_simulators,
                                pruned, touched>>
            ELSE /\ simulator_processes' = Del(simulator_processes, e.imei)
                 /\ pruned' = [pruned EXCEPT ![w] = @ \cup {e}]
                 /\ touched' = [touched EXCEPT ![w] = TRUE]
                 /\ snap' = [snap EXCEPT ![w] = Tail(@)]
                 /\ UNCHANGED <<pc, ret, active_simulators>>
    /\ UNCHANGED <<procs, files, op, req, process, stopped_count, errors,
                   called_alive, really_stopped, hvars, evars>>

\* --------------------------------------------------------------- stop_all
\* lines 1616-1620: the counters, list(simulator_processes.keys())
StopAllRequest(w, body) ==
    /\ Accepting(w)
    /\ op' = [op EXCEPT ![w] = "stop_all"]
    /\ req' = [req EXCEPT ![w] = Data("d0", body, DefaultParams)]
    /\ snap' = [snap EXCEPT ![w] = KeyList(simulator_processes)]
    /\ stopped_count' = [stopped_count EXCEPT ![w] = 0]
    /\ errors' = [errors EXCEPT ![w] = 0]
    /\ really_stopped' = [really_stopped EXCEPT ![w] = 0]
    /\ called_alive' = [called_alive EXCEPT ![w] = FALSE]
    /\ touched' = [touched EXCEPT ![w] = FALSE]
    /\ pc' = [pc EXCEPT ![w] = "stopall_loop"]
    /\ UNCHANGED <<simulator_processes, procs, files, process,
                   active_simulators, ret, pruned, hvars, evars>>

\* lines 1620-1636: call api_simulator_stop() for the next key of the
\* snapshot (the callee reads the imei of the request in progress, which
\* is the stop-all request), or return after the last key
StopAllLoop(w) ==
    /\ Running(w, {"stop_all"}, "stopall_loop")
    /\ IF snap[w] = <<>>
       THEN /\ pc' = [pc EXCEPT ![w] = "done"]
            /\ ret' = [ret EXCEPT ![w] = 200]
            /\ UNCHANGED <<snap, stopped_count, errors, really_stopped>>
       ELSE /\ snap' = [snap EXCEPT ![w] = Tail(@)]
            /\ StopEnter(w, "stop_all", req[w].imei)
    /\ UNCHANGED <<simulator_processes, procs, files, op, req, process,
                   active_simulators, called_alive, touched, pruned, hvars, evars>>

\* the response is sent; the thread serves the next request
Respond(w) ==
    /\ pc[w] = "done"
    /\ hook_pc # "done"
    /\ pc' = [pc EXCEPT ![w] = "idle"]
    /\ op' = [op EXCEPT ![w] = "none"]
    /\ req' = [req EXCEPT ![w] = NoData]
    /\ process' = [process EXCEPT ![w] = NoProc]
    /\ snap' = [snap EXCEPT ![w] = <<>>]
    /\ active_simulators' = [active_simulators EXCEPT ![w] = {}]
    /\ stopped_count' = [stopped_count EXCEPT ![w] = 0]
    /\ errors' = [errors EXCEPT ![w] = 0]
    /\ ret' = [ret EXCEPT ![w] = 0]
    /\ called_alive' = [called_alive EXCEPT ![w] = FALSE]
    /\ touched' = [touched EXCEPT ![w] = FALSE]
    /\ pruned' = [pruned EXCEPT ![w] = {}]
    /\ really_stopped' = [really_stopped EXCEPT ![w] = 0]
    /\ UNCHANGED <<simulator_processes, procs, files, hvars, evars>>

\* a simulator process ends by itself: crash, bad config, or SIGTERM handled
ProcExit(p) ==
    /\ p \in 1..Len(procs) /\ ~Returning
    /\ Polls(p)
    /\ procs' = SetState(p, "dead")
    /\ UNCHANGED <<simulator_processes, files, wvars, hist, hvars, evars>>


\* ------------------------------------------- cleanup_all_simulators (atexit)
\* the interpreter begins to exit: no request is accepted any more
Shutdown ==
    /\ ~exiting /\ ~Returning
    /\ Cardinality({x \in Workers : Busy(x)}) <= MaxInFlightAtExit
    /\ threaded \/ \A x \in Workers : pc[x] = "idle"
    /\ exiting' = TRUE
    /\ UNCHANGED <<simulator_processes, procs, files, wvars, hist, threaded,
                   configs, hook_pc, hook_idx, hook_len, hook_info, hook_reg0,
                   hook_failed, evars>>

\* lines 1757-1760: if simulator_processes: for ... in .items()
HookStart ==
    /\ exiting /\ ~Returning
    /\ hook_pc = "off"
    /\ hook_reg0' = simulator_processes
    /\ hook_len' = Len(simulator_processes)
    /\ hook_idx' = 1
    /\ hook_pc' = IF simulator_processes = <<>> THEN "done" ELSE "loop"
    /\ UNCHANGED <<simulator_processes, procs, files, wvars, called_alive,
                   touched, pruned, really_stopped, threaded, configs, exiting, hook_info,
                   hook_failed, evars>>

\* lines 1760-1765, 1776-1779: the next item of the live dictionary (a
\* dictionary that changed size raises RuntimeError out of the loop);
\* poll and terminate it; after the last item, clear the registry
HookNext ==
    /\ hook_pc = "loop" /\ ~Returning
    /\ IF Len(simulator_processes) # hook_len
       THEN /\ hook_pc' = "done"
            /\ hook_failed' = hook_failed \cup {"RuntimeError"}
            /\ UNCHANGED <<simulator_processes, procs, hook_idx, hook_info>>
       ELSE IF hook_idx > Len(simulator_processes)
       THEN /\ simulator_processes' = <<>>
            /\ hook_pc' = "done"
            /\ UNCHANGED <<procs, hook_idx, hook_info, hook_failed>>
       ELSE LET e == simulator_processes[hook_idx] IN
            /\ hook_info' = e
            /\ hook_idx' = hook_idx + 1
            /\ UNCHANGED simulator_processes
            /\ IF Polls(e.process)
               THEN \/ /\ procs' = Terminate(e.process)
                       /\ hook_pc' = "wait"
                       /\ UNCHANGED hook_failed
                    \/ \* terminate() raises: logged at line 1777
                       /\ hook_failed' = hook_failed \cup {e.imei}
                       /\ UNCHANGED <<procs, hook_pc>>
               ELSE /\ hook_pc' = "rmfile"
                    /\ UNCHANGED <<procs, hook_failed>>
    /\ UNCHANGED <<files, wvars, called_alive, touched, pruned,
                   really_stopped, threaded, configs, exiting, hook_len,
                   hook_reg0, evars>>

\* lines 1766-1769: process.wait(timeout=3); on TimeoutExpired process.kill()
HookWait ==
    /\ hook_pc = "wait" /\ ~Returning
    /\ IF Polls(hook_info.process)
       THEN \/ /\ procs' = SetState(hook_info.process, "dead")
               /\ hook_pc' = "rmfile"
               /\ UNCHANGED hook_failed
            \/ \* kill() raises: logged at line 1777
               /\ hook_failed' = hook_failed \cup {hook_info.imei}
               /\ hook_pc' = "loop"
               /\ UNCHANGED procs
       ELSE /\ hook_pc' = "rmfile"
            /\ UNCHANGED <<procs, hook_failed>>
    /\ UNCHANGED <<simulator_processes, files, wvars, called_alive, touched,
                   pruned, really_stopped, threaded, configs, exiting, hook_idx,
                   hook_len, hook_info, hook_reg0, evars>>

\* lines 1771-1774: remove the item's temp config file if it exists
HookRemoveFile ==
    /\ hook_pc = "rmfile" /\ ~Returning
    /\ files' = [files EXCEPT ![hook_info.temp_config_file] = NoFile]
    /\ hook_pc' = "loop"
    /\ UNCHANGED <<simulator_processes, procs, wvars, called_alive, touched,
                   pruned, really_stopped, threaded, configs, exiting, hook_idx,
                   hook_len, hook_info, hook_reg0, hook_failed, evars>>

\* ------------------------------------------------------- the specification
StartInputs == IMEIs \cup {NoImei}
StopInputs == IMEIs \cup {NoImei, NoJson}
StopAllInputs == IMEIs \cup {NoImei}

Next ==
    \/ \E w \in Workers, d \in DeviceIds, i \in StartInputs : StartRequest(w, d, i)
    \/ \E w \in Workers : StartCheck(w)
    \/ \E w \in Workers : StartGet(w)
    \/ \E w \in Workers : StartDel(w)
    \/ \E w \in Workers : StartWrite(w)
    \/ \E w \in Workers : StartSpawn(w)
    \/ \E w \in Workers : StartRegister(w)
    \/ \E w \in Workers, i \in StopInputs : StopRequest(w, i)
    \/ \E w \in Workers : StopGet(w)
    \/ \E w \in Workers : StopTerminate(w)
    \/ \E w \in Workers : StopKill(w)
    \/ \E w \in Workers : StopRemoveFile(w)
    \/ \E w \in Workers : StopDel(w)
    \/ \E w \in Workers : StatusRequest(w)
    \/ \E w \in Workers : StatusLoop(w)
    \/ \E w \in Workers, b \in StopAllInputs : StopAllRequest(w, b)
    \/ \E w \in Workers : StopAllLoop(w)
    \/ \E w \in Workers : Respond(w)
    \/ \E p \in 1..MaxSpawns : ProcExit(p)
    \/ Shutdown
    \/ HookStart
    \/ HookNext
    \/ HookWait
    \/ HookRemoveFile

Spec == Init /\ [][Next]_vars
SpecSeq == InitSeq /\ [][Next]_vars
SpecParams == InitParams /\ [][Next]_vars

\* The thread of a handler keeps being scheduled: the step its handler is
\* at is eventually taken.  Nothing is assumed of the environment: a
\* simulator process need not exit, terminate() need not raise, no request
\* and no shutdown need come.
Proceeds(w) ==
    \/ StartCheck(w) \/ StartGet(w) \/ StartDel(w) \/ StartWrite(w)
    \/ StartSpawn(w) \/ StartRegister(w)
    \/ StopGet(w) \/ StopWait(w) \/ StopKill(w) \/ StopRemoveFile(w)
    \/ StopDel(w)
    \/ StatusLoop(w) \/ StopAllLoop(w) \/ Respond(w)
\* the atexit hook runs to its end once the interpreter exits
HookProceeds == HookStart \/ HookNext \/ HookWait \/ HookRemoveFile
SpecLive ==
    /\ InitSeq /\ [][Next]_vars
    /\ \A w \in Workers : WF_vars(Proceeds(w))
    /\ WF_vars(HookProceeds)

\* ============================================ the engine (GPSSimulator)
\* src/simulatore/device_simulator.py.  The caller is the thread that calls
\* start_simulation and stop_simulation (SimulatorManager.start_all and
\* stop_all, lines 392-402), one call after the other, in any order.  Each
\* start_simulation that finds is_running false starts a Thread on
\* simulate_movement; its steps are cut at the reads and writes of the
\* engine's fields and at the log records it writes.
Live(t) == loops[t].pc # "exited"
\* the locals of a loop before their first assignment
NoSegment == [from |-> -1, to |-> -1]
NoResponse == [raised |-> FALSE, status_code |-> 0]
InFlight(t) == loops[t].pc \in {"send", "store_ok", "store_fail"}
SetLoop(t, f, v) == [loops EXCEPT ![t][f] = v]

\* ---- the log, lines 21-28: every record of level INFO or above goes to
\* sys.stdout (StreamHandler, flushed after each record).  stdout counts the
\* records a pipe holds; a write to a terminal never waits.  Nothing ever
\* reads the pipe the supervisor gives a unit (src/app.py:1511-1516 keeps the
\* Popen object and never reads process.stdout), so a record that does not
\* fit fills the pipe and its thread waits in write() from then on.
Room(n) == ~piped \/ stdout + n <= PipeCapacity
Written(n) ==
    IF ~piped THEN stdout
    ELSE IF stdout + n <= PipeCapacity THEN stdout + n ELSE PipeCapacity
\* where a thread is after logging n records on its way to `next`
After(n, next) == IF Room(n) THEN next ELSE "blocked"
\* self.start_time is set (line 253)
StartTimeSet == \E t \in 1..Len(loops) : loops[t].pc # "begin" /\ path > 0

\* lines 327-337
start_simulation ==
    /\ caller = "idle"
    /\ IF is_running
       THEN UNCHANGED <<is_running, thread, loops>>
       ELSE /\ Len(loops) < MaxThreads
            /\ is_running' = TRUE
            /\ loops' = Append(
                    [t \in 1..Len(loops) |->
                        IF Live(t) THEN [loops[t] EXCEPT !.shared = TRUE]
                        ELSE loops[t]],
                    [pc |-> "begin", step |-> 0, reg |-> 0, sample |-> 0,
                     told |-> FALSE, woken |-> FALSE, seg |-> NoSegment,
                     response |-> NoResponse, distance0 |-> -1,
                     shared |-> \E t \in 1..Len(loops) : Live(t)])
            /\ thread' = Len(loops) + 1
    /\ stdout' = Written(1)                  \* line 330 or line 337
    /\ caller' = After(1, "idle")
    /\ UNCHANGED <<svars, update_interval, stats, sends, ever_ok,
                   stop_requested, stop_returned, bases>>

\* lines 339-346: clear the flag, then join the thread for at most 5 s
stop_simulation ==
    /\ caller = "idle"
    /\ IF ~is_running
       THEN UNCHANGED <<is_running, loops, caller, stop_requested>>
       ELSE /\ is_running' = FALSE
            /\ stop_requested' = TRUE
            /\ loops' = [t \in 1..Len(loops) |->
                            IF Live(t) THEN [loops[t] EXCEPT !.told = TRUE]
                            ELSE loops[t]]
            /\ caller' = IF thread # 0 THEN "join" ELSE "idle"
    /\ UNCHANGED <<svars, thread, update_interval, stats, sends, ever_ok,
                   stop_returned, stdout, bases>>

\* line 346 and 348-355: thread.join(timeout=5) returns, because the thread
\* has ended or because 5 s have passed; the five lines of statistics are
\* logged if start_time is set
JoinReturn ==
    /\ caller = "join"
    /\ LET n == IF StartTimeSet THEN 5 ELSE 0 IN
        /\ stdout' = Written(n)
        /\ caller' = After(n, "idle")
        /\ stop_returned' = Room(n)
    /\ UNCHANGED <<svars, is_running, thread, loops, update_interval, stats,
                   sends, ever_ok, stop_requested, bases>>

\* lines 249-256: the thread begins; an empty path ends it at once (one
\* record), otherwise start_time is set and two records are logged
LoopBegin(t) ==
    /\ t \in 1..Len(loops) /\ loops[t].pc = "begin"
    /\ LET n == IF path = 0 THEN 1 ELSE 2 IN
        /\ stdout' = Written(n)
        /\ loops' = SetLoop(t, "pc",
                        After(n, IF path = 0 THEN "exited" ELSE "while"))
    /\ UNCHANGED <<svars, is_running, thread, update_interval, stats, caller,
                   sends, ever_ok, stop_requested, stop_returned, bases>>

\* lines 258-278: the while test; the wrap of the index (one record);
\* current_point and next_point, path[index] and path[index + 1], which
\* raises IndexError on a path of one waypoint; steps_needed, whose division
\* by an update_interval of 0 raises ZeroDivisionError.  Line 323 catches
\* both and line 324 logs one record.
LoopWhile(t) ==
    /\ t \in 1..Len(loops) /\ loops[t].pc = "while"
    /\ IF ~is_running
       THEN /\ loops' = SetLoop(t, "pc", "exited")
            /\ UNCHANGED <<current_position_index, stdout, bases>>
       ELSE LET wraps == current_position_index >= path - 1
                index == IF wraps THEN 0 ELSE current_position_index
                raises == index + 1 >= path \/ update_interval = 0
                n == (IF wraps THEN 1 ELSE 0) + (IF raises THEN 1 ELSE 0)
            IN  /\ current_position_index' = index
                /\ bases' = IF wraps THEN {} ELSE bases
                /\ stdout' = Written(n)
                /\ loops' = [loops EXCEPT
                        ![t].seg = IF index + 1 >= path THEN loops[t].seg
                                   ELSE [from |-> index, to |-> index + 1],
                        ![t].pc = After(n, IF raises THEN "except_sleep"
                                           ELSE "for"),
                        ![t].distance0 = total_distance,
                        ![t].step = 0]
    /\ UNCHANGED <<svars, is_running, thread, update_interval, packets_sent,
                   packets_failed, total_distance, current_position, caller,
                   sends, ever_ok, stop_requested, stop_returned>>

\* lines 282-304: the flag test of one step, then the sample is handed to
\* send_position_to_traccar (requests.get, line 227, is in flight)
LoopFor(t) ==
    /\ t \in 1..Len(loops) /\ loops[t].pc = "for"
    /\ IF ~is_running
       THEN /\ loops' = [loops EXCEPT ![t].pc = "advance",
                                      ![t].distance0 = -1]
            /\ UNCHANGED sends
       ELSE /\ sends < MaxSends
            /\ sends' = sends + 1
            /\ loops' = [loops EXCEPT ![t].pc = "send", ![t].sample = sends + 1]
    /\ UNCHANGED <<svars, is_running, thread, update_interval, stats, caller,
                   ever_ok, stop_requested, stop_returned, stdout, bases>>

\* what requests.get (line 227) can end with: a response with a status code,
\* or an exception (connection refused, timeout, invalid URL, ...)
StatusCodes == {200, 204, 404}
Responses ==
    {[raised |-> FALSE, status_code |-> c] : c \in StatusCodes}
        \cup {[raised |-> TRUE, status_code |-> 0]}
\* lines 229 and 240: the branch that counts a success
Success(response) == ~response.raised /\ response.status_code = 200
\* lines 230, 234, 241: self.packets_sent += 1, self.packets_failed += 1
IncrementMutant(n) == n + 2
Increment(n) == n + 1

\* lines 227-243: the request ends; the counter to add to is read
\* (packets_sent += 1 is a read, an addition and a write)
SendReturn(t, response) ==
    /\ t \in 1..Len(loops) /\ loops[t].pc = "send"
    /\ loops' = [loops EXCEPT
            ![t].pc = IF Success(response) THEN "store_ok" ELSE "store_fail",
            ![t].reg = IF Success(response) THEN packets_sent
                       ELSE packets_failed,
            ![t].response = response]
    /\ ever_ok' = (ever_ok \/ Success(response))
    /\ UNCHANGED <<svars, is_running, thread, update_interval, stats, caller,
                   sends, stop_requested, stop_returned, stdout, bases>>

\* the records one call of send_position_to_traccar and the lines after it
\* log: three warnings for a status other than 200 (lines 235-237), one
\* error for an exception (line 242), one line of progress when packets_sent
\* is a multiple of ten (lines 314-315)
Records(response, sent) ==
    IF response.raised THEN 1
    ELSE IF ~Success(response) THEN 3
    ELSE IF sent % LogEvery = 0 THEN 1 ELSE 0

\* lines 230 / 234 / 241: the counter is written and the call returns True
\* or False; lines 306-315 after True: the position fields and total_distance
Store(t) ==
    /\ t \in 1..Len(loops) /\ loops[t].pc \in {"store_ok", "store_fail"}
    /\ IF loops[t].pc = "store_ok"
       THEN /\ packets_sent' = Increment(loops[t].reg)
            /\ current_position' = loops[t].sample
            /\ total_distance' = total_distance + 1
            /\ bases' = bases \cup {loops[t].seg.from}
            /\ UNCHANGED packets_failed
       ELSE /\ packets_failed' = Increment(loops[t].reg)
            /\ UNCHANGED <<packets_sent, current_position, total_distance,
                           bases>>
    /\ LET n == Records(loops[t].response, packets_sent') IN
        /\ stdout' = Written(n)
        /\ loops' = [loops EXCEPT
                ![t].pc = After(n, "sleep"),
                ![t].response = NoResponse,
                ![t].distance0 = IF loops[t].pc = "store_ok" THEN @ ELSE -1]
    /\ UNCHANGED <<svars, is_running, thread, update_interval,
                   current_position_index, caller, sends, ever_ok,
                   stop_requested, stop_returned>>

\* line 318: time.sleep(update_interval) returns; the next step of the
\* segment, or the end of the for loop
Wake(t) ==
    /\ t \in 1..Len(loops) /\ loops[t].pc = "sleep"
    /\ update_interval >= 0
    /\ loops' = [loops EXCEPT
            ![t].pc = IF loops[t].step + 1 < StepsNeeded
                      THEN "for" ELSE "advance",
            ![t].step = loops[t].step + 1,
            ![t].woken = loops[t].told]
    /\ UNCHANGED <<svars, is_running, thread, update_interval, stats, caller,
                   sends, ever_ok, stop_requested, stop_returned, stdout,
                   bases>>

\* line 318: time.sleep of a negative update_interval raises ValueError,
\* which the except branch of line 323 catches and line 324 logs
SleepRaises(t) ==
    /\ t \in 1..Len(loops) /\ loops[t].pc = "sleep"
    /\ update_interval < 0
    /\ stdout' = Written(1)
    /\ loops' = SetLoop(t, "pc", After(1, "except_sleep"))
    /\ UNCHANGED <<svars, is_running, thread, update_interval, stats, caller,
                   sends, ever_ok, stop_requested, stop_returned, bases>>

\* line 321: self.current_position_index += 1
LoopAdvance(t) ==
    /\ t \in 1..Len(loops) /\ loops[t].pc = "advance"
    /\ current_position_index' = current_position_index + 1
    /\ loops' = SetLoop(t, "pc", "while")
    /\ UNCHANGED <<svars, is_running, thread, update_interval, packets_sent,
                   packets_failed, total_distance, current_position, caller,
                   sends, ever_ok, stop_requested, stop_returned, stdout,
                   bases>>

\* line 325: the sleep of the except branch returns and the while test is
\* next; with a negative update_interval that sleep raises ValueError
\* outside the try block, which ends simulate_movement and its thread
ExceptWake(t) ==
    /\ t \in 1..Len(loops) /\ loops[t].pc = "except_sleep"
    /\ loops' = [loops EXCEPT
            ![t].pc = IF update_interval < 0 THEN "exited" ELSE "while",
            ![t].woken = loops[t].told]
    /\ UNCHANGED <<svars, is_running, thread, update_interval, stats, caller,
                   sends, ever_ok, stop_requested, stop_returned, stdout,
                   bases>>

NextEngine ==
    \/ start_simulation
    \/ stop_simulation
    \/ JoinReturn
    \/ \E t \in 1..MaxThreads : LoopBegin(t)
    \/ \E t \in 1..MaxThreads : LoopWhile(t)
    \/ \E t \in 1..MaxThreads : LoopFor(t)
    \/ \E t \in 1..MaxThreads, response \in Responses :
            SendReturn(t, response)
    \/ \E t \in 1..MaxThreads : Store(t)
    \/ \E t \in 1..MaxThreads : Wake(t)
    \/ \E t \in 1..MaxThreads : SleepRaises(t)
    \/ \E t \in 1..MaxThreads : LoopAdvance(t)
    \/ \E t \in 1..MaxThreads : ExceptWake(t)

SpecEngine == InitEngine /\ [][NextEngine]_vars

\* ---- one engine, started once and run until it is stopped, as main does
\* (manager.start_all(), line 548; stop_all on a signal, lines 460-466), on
\* a path of any length, with its stdout on a terminal or on the pipe of
\* the supervisor
InitRun ==
    /\ threaded = FALSE /\ configs = {DefaultParams} /\ InitRest
    /\ EngineInit /\ update_interval = DefaultInterval /\ NoCall
    /\ path \in 0..PathLen /\ piped \in BOOLEAN
StartOnce == Len(loops) = 0 /\ start_simulation
NextRun ==
    \/ StartOnce
    \/ stop_simulation
    \/ JoinReturn
    \/ \E t \in 1..MaxThreads : LoopBegin(t)
    \/ \E t \in 1..MaxThreads : LoopWhile(t)
    \/ \E t \in 1..MaxThreads : LoopFor(t)
    \/ \E t \in 1..MaxThreads, response \in Responses :
            SendReturn(t, response)
    \/ \E t \in 1..MaxThreads : Store(t)
    \/ \E t \in 1..MaxThreads : Wake(t)
    \/ \E t \in 1..MaxThreads : LoopAdvance(t)
    \/ \E t \in 1..MaxThreads : ExceptWake(t)
\* The thread of a movement loop keeps being scheduled: a sleep ends, a
\* request ends (timeout=10, line 227), the step the loop is at is taken.  A
\* thread waiting in write() on a full pipe has no step to take.
Runs(t) ==
    \/ LoopBegin(t) \/ LoopWhile(t) \/ LoopFor(t)
    \/ (\E response \in Responses : SendReturn(t, response))
    \/ Store(t) \/ Wake(t) \/ LoopAdvance(t) \/ ExceptWake(t)
SpecRun ==
    /\ InitRun /\ [][NextRun]_vars
    /\ \A t \in 1..MaxThreads : WF_vars(Runs(t))
    /\ WF_vars(JoinReturn)

\* ===================================== functions of the engine without state
\* src/simulatore/device_simulator.py.  One call: Init draws the function and
\* its arguments, the action of the function stores what it returns.
machines == <<simulator_processes, procs, files, wvars, hist, hvars,
              is_running, thread, loops, update_interval, stats, caller,
              sends, ever_ok, stop_requested, stop_returned, stdout, bases,
              setup>>
Abs(x) == IF x < 0 THEN -x ELSE x
Max(a, b) == IF a >= b THEN a ELSE b
\* the multiple of s nearest to x, the even one of two equally near
RoundTo(x, s) ==
    LET q == x \div s
        r == x - q * s
    IN  IF 2 * r < s THEN q * s
        ELSE IF 2 * r > s THEN (q + 1) * s
        ELSE IF q % 2 = 0 THEN q * s ELSE (q + 1) * s

\* ---- the URL of a report, lines 219-220.  A string is the sequence of its
\* parts: a scheme, a host, a port.
Hosts == {"localhost", "traccar.example.org"}
\* the address forms of a tracking server; create_simulator_config writes
\* 'http://localhost:8082' (src/app.py:1697), which is also the default of
\* main (line 504)
Addresses ==
    UNION {{<<h>>, <<"http://", h>>, <<"https://", h>>, <<h, ":8082">>,
            <<"http://", h, ":8082">>, <<"https://", h, ":8082">>}
           : h \in Hosts}
\* str.replace(old, '')
replace(str, old) == SelectSeq(str, LAMBDA part : part # old)
\* line 219
server_base(traccar_server) ==
    replace(replace(traccar_server, "http://"), "https://")
\* line 220: f"http://{server_base}:5055"
url(traccar_server) ==
    <<"http://">> \o server_base(traccar_server) \o <<":5055">>

BuildUrl ==
    /\ called = "url" /\ result = <<>>
    /\ result' = <<url(args.traccar_server)>>
    /\ UNCHANGED <<machines, called, args>>

\* ---- steps_needed, lines 277-278, with the distance in metres:
\* time_to_next / update_interval
\*     = (distance_m / 1000 / speed_kmh) * 3600 / update_interval
\*     = (18 * distance_m) / (5 * speed_kmh * update_interval)
\* int() of a quotient n / d: the fraction is dropped
int(n, d) ==
    IF (n >= 0) = (d > 0) THEN Abs(n) \div Abs(d) ELSE -(Abs(n) \div Abs(d))
steps_needed(distance_m, speed_kmh, interval) ==
    Max(1, int(18 * distance_m, 5 * speed_kmh * interval))
Distances == {0, 100, 250, 667, 1000, 2500}
Speeds == {2, 30, DefaultSpeed, 120, 200}
Intervals == {5, DefaultInterval, 60}

ComputeSteps ==
    /\ called = "steps_needed" /\ result = <<>>
    /\ result' = <<steps_needed(args.distance_m, args.speed_kmh,
                                args.update_interval)>>
    /\ UNCHANGED <<machines, called, args>>

\* ---- generate_circular_path, lines 66-93.  A double is kept as its
\* thousandths (of a degree, or of 1 for a cosine) and `tiny`, what the
\* double holds far below that, in units of 2^-52 / 10^6.
\* math.cos(math.radians(center_lat)), in thousandths
cos_radians == [d \in {0, 60} |-> IF d = 0 THEN 1000 ELSE 500]
\* math.cos(2 * math.pi * i / points) and math.sin of it for i = 0..points:
\* the doubles the library returns; dev is the distance of the double from
\* the thousandth, in units of 2^-52 / 1000 (sin(2 * math.pi) is
\* -2.4492935982947064e-16, not 0: 2 * math.pi is not the real 2 pi)
T(milli, dev) == [milli |-> milli, dev |-> dev]
cos == [n \in {3, 4} |->
          IF n = 3
          THEN <<T(1000, 0), T(-500, 1000), T(-500, -2000), T(1000, 0)>>
          ELSE <<T(1000, 0), T(0, 276), T(-1000, 0), T(0, -827),
                 T(1000, 0)>>]
sin == [n \in {3, 4} |->
          IF n = 3
          THEN <<T(0, 0), T(866, 0), T(-866, 0), T(0, -1103)>>
          ELSE <<T(0, 0), T(1000, 0), T(0, 552), T(-1000, 0),
                 T(0, -1103)>>]
\* the distance between neighbouring doubles at a value of a thousandths:
\* 2^-52 at 1.0, doubling with every power of two
RECURSIVE Binade(_, _)
Binade(a, s) ==
    IF a >= 2 * s THEN Binade(a, 2 * s)
    ELSE IF a < s /\ s > 1 THEN Binade(a, s \div 2)
    ELSE s
Spacing(milli) == IF milli = 0 THEN 1 ELSE 1000 * Binade(Abs(milli), 1000)
\* center + offset * trig, lines 88-89: the sum is rounded to a double
Coordinate(center, offset, trig) ==
    LET milli == center + (offset * trig.milli) \div 1000
    IN  [milli |-> milli,
         tiny |-> RoundTo(offset * trig.dev, Spacing(milli))]
\* line 85, in thousandths of a degree: radius_km / 111.32
lat_offset(radius_km) == (radius_km * 100000) \div 11132
\* line 86
lng_offset(radius_km, center_lat) ==
    (lat_offset(radius_km) * 1000) \div cos_radians[center_lat]
generate_circular_path(center_lat, center_lng, radius_km, points) ==
    [j \in 1..(points + 1) |->
        [lat |-> Coordinate(center_lat * 1000, lat_offset(radius_km),
                            cos[points][j]),
         lng |-> Coordinate(center_lng * 1000,
                            lng_offset(radius_km, center_lat),
                            sin[points][j])]]

GenerateCircular ==
    /\ called = "generate_circular_path" /\ result = <<>>
    /\ result' = <<generate_circular_path(args.center_lat, args.center_lng,
                                          args.radius_km, args.points)>>
    /\ UNCHANGED <<machines, called, args>>

\* ---- generate_route_path, lines 95-127.  The sums and differences of
\* lines 116-117 and 122-123 are rounded to a float: a coordinate is an
\* integer number of units and a float holds FloatBits significant bits
\* (53 in a double).
RECURSIVE Grid(_, _)
Grid(a, g) == IF a < g * 2 ^ FloatBits THEN g ELSE Grid(a, 2 * g)
Float(x) == RoundTo(x, Grid(Abs(x), 1))
\* line 116: start + (end - start) * progress, progress = i / points with
\* points a power of two and the coordinates multiples of it, so that
\* i / points and the product are exact before the rounding
Interpolate(start, end, i, points) ==
    Float(start + Float((Float(end - start) * i) \div points))
\* random.uniform(-variation, variation), line 121-123
Variations == {-Variation, 0, Variation}
generate_route_path(start, end, points, jitter) ==
    [j \in 1..(points + 1) |->
        LET i == j - 1
            lat == Interpolate(start.lat, end.lat, i, points)
            lng == Interpolate(start.lng, end.lng, i, points)
        IN  IF i > 0 /\ i < points
            THEN [lat |-> Float(lat + jitter[i].lat),
                  lng |-> Float(lng + jitter[i].lng)]
            ELSE [lat |-> lat, lng |-> lng]]
RoutePoints == {2, 4}
RouteStarts == {[lat |-> 4, lng |-> 0], [lat |-> 12, lng |-> 40]}
RouteEnds == {[lat |-> -72, lng |-> 4], [lat |-> 40, lng |-> 12],
              [lat |-> 20, lng |-> 8]}

GenerateRoute ==
    /\ called = "generate_route_path" /\ result = <<>>
    /\ \E jitter \in [1..(args.points - 1) ->
                        [lat : Variations, lng : Variations]] :
         result' = <<generate_route_path(args.start, args.end, args.points,
                                         jitter)>>
    /\ UNCHANGED <<machines, called, args>>

\* ---- create_simulator_path, src/simulatore/google_maps_route.py:228-249.
\* A speed is the fraction n / d km/h, d > 0.
Whole(k) == [n |-> k, d |-> 1]
Leq(x, y) == x.n * y.d <= y.n * x.d
\* min(max(x, lo), hi), lines 234, 236, 238
ClampMutant(x, lo, hi) == x
Clamp(x, lo, hi) ==
    LET raised == IF Leq(lo, x) THEN x ELSE lo        \* max(x, lo)
    IN  IF Leq(raised, hi) THEN raised ELSE hi        \* min(..., hi)
\* lines 229-230: metres / seconds * 3.6 = (18 * metres) / (5 * seconds)
avg_speed_kmh(route_info) ==
    [n |-> 18 * route_info.total_distance_meters,
     d |-> 5 * route_info.total_duration_seconds]
\* lines 233-240
suggested_speed(route_info, travel_mode) ==
    IF travel_mode = "driving"
    THEN Clamp(avg_speed_kmh(route_info), Whole(20), Whole(130))
    ELSE IF travel_mode = "walking"
    THEN Clamp(avg_speed_kmh(route_info), Whole(3), Whole(8))
    ELSE IF travel_mode = "bicycling"
    THEN Clamp(avg_speed_kmh(route_info), Whole(10), Whole(25))
    ELSE avg_speed_kmh(route_info)
\* the routes the directions service returns (extract_route_info, lines
\* 142-187) and the travel modes it takes (line 44)
RouteMeters == {0, 50, 100, 2000, 10000}
RouteSeconds == {0, 6, 60, 360}
TravelModes == {"driving", "walking", "bicycling", "transit"}
\* a route of 0 seconds raises ZeroDivisionError at line 229
create_simulator_path(route_info, travel_mode) ==
    IF route_info.total_duration_seconds = 0
    THEN [raised |-> TRUE, suggested_speed_kmh |-> Whole(0),
          travel_mode |-> travel_mode]
    ELSE [raised |-> FALSE,
          suggested_speed_kmh |-> suggested_speed(route_info, travel_mode),
          travel_mode |-> travel_mode]

CreatePath ==
    /\ called = "create_simulator_path" /\ result = <<>>
    /\ result' = <<create_simulator_path(args.route_info, args.travel_mode)>>
    /\ UNCHANGED <<machines, called, args>>

InitCall ==
    /\ threaded = FALSE /\ configs = {DefaultParams} /\ InitRest
    /\ EngineInit /\ update_interval = DefaultInterval /\ OnConsole
    /\ result = <<>>
    /\ \/ /\ called = "url"
          /\ args \in [traccar_server : Addresses]
       \/ /\ called = "steps_needed"
          /\ args \in [distance_m : Distances, speed_kmh : Speeds,
                       update_interval : Intervals]
       \/ /\ called = "generate_circular_path"
          /\ args \in [center_lat : {0, 60}, center_lng : {0, 9},
                       radius_km : {2, 500}, points : {3, 4}]
       \/ /\ called = "generate_route_path"
          /\ args \in [start : RouteStarts, end : RouteEnds,
                       points : RoutePoints]
       \/ /\ called = "create_simulator_path"
          /\ args \in [route_info : [total_distance_meters : RouteMeters,
                                      total_duration_seconds : RouteSeconds],
                       travel_mode : TravelModes]
NextCall ==
    \/ BuildUrl \/ ComputeSteps \/ GenerateCircular \/ GenerateRoute
    \/ CreatePath
SpecCall == InitCall /\ [][NextCall]_vars


\* =================================================================== claims
LiveProcs(i) == {p \in 1..Len(procs) : procs[p].imei = i /\ Polls(p)}
Returned(w, o) == pc[w] = "done" /\ op[w] = o
NoFiles == \A i \in IMEIs : files[i] = NoFile

\* C1: under any interleaving of start requests for one imei, at most one
\* spawned simulator process of that imei is alive at every instant (the
\* registry check and the registry insertion act as one atomic step).
C1_OneLiveProcessPerImei == \A i \in IMEIs : Cardinality(LiveProcs(i)) <= 1

\* C2 as stated: a start called for an imei whose registered process is
\* alive returns 409 and has changed nothing.
C2_CalledAliveReturns409 ==
    \A w \in Workers :
        Returned(w, "start") /\ called_alive[w] => ret[w] = 409 /\ ~touched[w]

\* C2 amended: a start for a device id the directory knows that finds, at
\* its registry check (lines 1493-1494), the imei registered with a process
\* still alive returns 409 and has changed nothing: the registry, every
\* process and every temp config file are as they were.
C2_AlreadyRunning ==
    [][\A w \in Workers :
          ( /\ pc[w] = "start_get" /\ pc'[w] # "start_get"
            /\ Has(simulator_processes, req[w].imei)
            /\ Polls(Get(simulator_processes, req[w].imei).process) )
          => /\ pc'[w] = "done" /\ ret'[w] = 409
             /\ ~touched[w] /\ ~touched'[w]
             /\ UNCHANGED <<simulator_processes, procs, files>>]_vars

C2_Witness ==
    \E w \in Workers :
        /\ Returned(w, "start") /\ ret[w] = 409
        /\ Has(simulator_processes, req[w].imei)
        /\ Get(simulator_processes, req[w].imei).process = process[w]
        /\ Polls(process[w])
        /\ files[req[w].imei] # NoFile

\* C3: stop for an imei that has no registry entry returns 404 and leaves
\* the registry, every process and every temp config file unchanged.
C3_StopNotFound ==
    [][\A w \in Workers :
          ( /\ pc[w] = "idle" /\ op'[w] = "stop"
            /\ req'[w].imei \in IMEIs
            /\ ~Has(simulator_processes, req'[w].imei) )
          => /\ pc'[w] = "done" /\ ret'[w] = 404
             /\ UNCHANGED <<simulator_processes, procs, files>>]_vars

C3_Witness ==
    \E w \in Workers :
        /\ Returned(w, "stop") /\ ret[w] = 404
        /\ req[w].imei \in IMEIs
        /\ simulator_processes # <<>>
        /\ ~NoFiles

\* C4: whenever stop returns success, the process that was registered for
\* the imei has exited.
C4_StoppedProcessIsGone ==
    \A w \in Workers :
        Returned(w, "stop") /\ ret[w] = 200 => ~Polls(process[w])

\* C5: when a stop that found its imei registered returns, the registry
\* entry and the temp config file of that imei are both gone.
C5_StopRemovesEntryAndFile ==
    \A w \in Workers :
        Returned(w, "stop") /\ req[w].imei \in IMEIs /\ ret[w] # 404
        => /\ ~Has(simulator_processes, req[w].imei)
           /\ files[req[w].imei] = NoFile

\* C6: after stop_all completes with no concurrent start, the registry is
\* empty (so status lists nothing), no registered process is left alive and
\* no temp config file remains.
C6_StopAllLeavesNothing ==
    \A w \in Workers :
        Returned(w, "stop_all")
        => /\ simulator_processes = <<>>
           /\ NoFiles

\* C7: stop_all returns stopped_count equal to the number of units it
\* stopped, and one error for each unit it failed to stop.
C7_StoppedCountIsExact ==
    \A w \in Workers :
        Returned(w, "stop_all") => stopped_count[w] = really_stopped[w]

\* C8: with no concurrent operation, status lists an entry exactly when its
\* process is alive when checked and deletes it from the registry
\* otherwise; when it returns, the registry keys are the listed imeis, the
\* listed entries are unmodified and no entry found dead remains.
C8_StatusAtReturn ==
    \A w \in Workers :
        Returned(w, "status")
        => /\ ret[w] = 200
           /\ Keys(simulator_processes) = {e.imei : e \in active_simulators[w]}
           /\ \A e \in active_simulators[w] :
                Get(simulator_processes, e.imei) = e
           /\ \A e \in pruned[w] :
                ~Polls(e.process) /\ ~Has(simulator_processes, e.imei)

C8_StatusEachEntry ==
    \A w \in Workers :
        ( /\ pc[w] = "status_loop" /\ snap[w] # <<>>
          /\ (snap'[w] # snap[w] \/ pc'[w] # "status_loop") )
        => LET e == Head(snap[w]) IN
           IF Polls(e.process)
           THEN /\ e \in active_simulators'[w]
                /\ UNCHANGED simulator_processes
           ELSE /\ e \notin active_simulators'[w]
                /\ ~Has(simulator_processes', e.imei)

C9_StatusNeverErrors ==
    \A w \in Workers : Returned(w, "status") => ret[w] = 200

\* C10: when the shutdown hook has run, every unit that was registered is
\* terminated, its temp config file is deleted, and the registry is empty.
C10_ShutdownCleansEveryUnit ==
    hook_pc = "done"
    => /\ simulator_processes = <<>>
       /\ \A k \in 1..Len(hook_reg0) :
            /\ ~Polls(hook_reg0[k].process)
            /\ files[hook_reg0[k].imei] = NoFile

\* process p is running a simulation: it is alive and main() found a
\* non-empty path for the device of its config file (lines 536-548 of
\* src/simulatore/device_simulator.py)
Simulates(p) ==
    /\ Polls(p) /\ procs[p].config # <<>>
    /\ EnginePath(procs[p].config[1]) > 0
\* process p was spawned for the given request
SpawnedFor(p, data) == procs[p].config = <<create_simulator_config(data)>>

\* C11: when spawning the simulator process fails during start, the start
\* returns an error, the temp config file of its imei is removed, and the
\* registry has no entry for that imei when it returns.
C11_SpawnFailureRollsBack ==
    [][\A w \in Workers :
          (pc[w] = "start_spawn" /\ pc'[w] = "done")
          => /\ ret'[w] = 500
             /\ files'[TempFile(req[w].imei)] = NoFile
             /\ ~Has(simulator_processes', req[w].imei)]_vars

\* C12: a start with simulation type custom and an empty waypoint list
\* fails: it does not return success, it registers nothing, it leaves no
\* temp config file, and no process simulates for it.
C12_EmptyCustomPathFails ==
    \A w \in Workers :
        ( /\ Returned(w, "start") /\ req[w].imei \in IMEIs
          /\ req[w].simulation_type = "custom" /\ req[w].path = 0 )
        => /\ ret[w] # 200
           /\ files[TempFile(req[w].imei)] # <<create_simulator_config(req[w])>>
           /\ \A p \in 1..Len(procs) :
                SpawnedFor(p, req[w]) => ~Simulates(p)

\* C13: a start with a non-positive update_interval or a non-positive
\* speed_kmh fails with an error: no process is spawned for it and nothing
\* is registered for it.
C13_NonPositiveParamsFail ==
    \A w \in Workers :
        ( /\ Returned(w, "start") /\ req[w].imei \in IMEIs
          /\ (req[w].update_interval <= 0 \/ req[w].speed_kmh <= 0) )
        => /\ ret[w] # 200
           /\ \A p \in 1..Len(procs) : ~SpawnedFor(p, req[w])

\* C14: a start request (one that carries its required fields, lines
\* 1478-1481) for a device id the device directory does not know returns
\* 404 and has no side effect: the registry, the processes and the temp
\* config files are unchanged.
C14_UnknownDevice ==
    [][\A w \in Workers :
          ( /\ pc[w] = "idle" /\ op'[w] = "start"
            /\ req'[w].imei \in IMEIs
            /\ req'[w].device_id \notin KnownDevices )
          => /\ pc'[w] = "done" /\ ret'[w] = 404
             /\ UNCHANGED <<simulator_processes, procs, files>>]_vars

C14_Witness ==
    \E w \in Workers :
        /\ Returned(w, "start") /\ ret[w] = 404
        /\ req[w].device_id \notin KnownDevices
        /\ Has(simulator_processes, req[w].imei)
        /\ Polls(Get(simulator_processes, req[w].imei).process)

\* the handler of worker w is between the first and the last access to the
\* registry of its check/modify section (start: 1492-1525, stop: 1563-1593,
\* status: 1441-1454, stop_all: 1620-1629)
InSection(w) ==
    pc[w] \in {"start_get", "start_del", "start_write", "start_spawn",
               "start_register", "stop_get", "stop_terminate", "stop_kill",
               "stop_rmfile", "stop_del", "status_loop", "stopall_loop"}
\* the shutdown hook is between lines 1760 and 1779
HookInSection == hook_pc \in {"loop", "wait", "rmfile"}

\* C15: the registry sections of start, stop, stop_all, status and the
\* shutdown hook exclude each other: at most one of them is inside its
\* section at any instant.
C15_MutualExclusion ==
    Cardinality({w \in Workers : InSection(w)})
        + (IF HookInSection THEN 1 ELSE 0) <= 1

\* C16: at most one movement-loop thread of the engine is active and at
\* most one send_position_to_traccar call is in flight at every instant.
C16_OneLoopOneSend ==
    /\ Cardinality({t \in 1..Len(loops) : Live(t)}) <= 1
    /\ Cardinality({t \in 1..Len(loops) : InFlight(t)}) <= 1

\* C17: as long as every send has failed, packets_sent is 0, packets_failed
\* never decreases and grows by exactly one with each tick, and a movement
\* loop ends only when stop has been requested.
C17_AllSendsFail ==
    [][~ever_ok' =>
        /\ packets_sent' = 0
        /\ packets_failed' >= packets_failed
        /\ \A t \in 1..Len(loops) :
            /\ (loops[t].pc = "store_fail" /\ loops'[t].pc = "sleep")
                    => packets_failed' = packets_failed + 1
            /\ (Live(t) /\ loops'[t].pc = "exited") => stop_requested]_vars

\* C18: once stop_simulation has returned (and the engine is stopped), the
\* statistics and the position never change.
C18_StoppedIsReadOnly ==
    [][(stop_returned /\ ~is_running) => UNCHANGED stats]_vars

\* C19: once stop_simulation has been called on the running engine,
\* is_running never becomes true again and no new movement loop starts.
C19_StoppedIsTerminal ==
    [][stop_requested =>
        /\ (is_running' => is_running)
        /\ Len(loops') = Len(loops)]_vars

\* C20: a movement loop that has returned from a sleep after stop was
\* requested observes the request: it hands no further sample to the
\* reporter and does not sleep again.
C20_StopObservedAfterSleep ==
    \A t \in 1..Len(loops) :
        loops[t].woken =>
            loops[t].pc \in {"for", "advance", "while", "exited"}

\* C21: while the engine runs on a path of PathLen >= 2 waypoints,
\* current_position_index stays within 0..PathLen-1, every segment a loop
\* reads is (i, i+1) with both waypoints on the path, the first segment read
\* is (0, 1), and the segment a loop reads after having traversed (i, i+1) is
\* the next one, (0, 1) after the last (after a caught error it is the same
\* segment again).
C21_SegmentsInOrder ==
    [][/\ current_position_index' \in 0..(PathLen - 1)
       /\ \A t \in 1..Len(loops) :
            (loops[t].pc = "while" /\ loops'[t].pc \in {"for", "except_sleep"})
                => /\ loops'[t].seg.from \in 0..(PathLen - 2)
                   /\ loops'[t].seg.to = loops'[t].seg.from + 1
                   /\ (loops[t].seg = NoSegment /\ t = 1)
                        => loops'[t].seg.from = 0
                   /\ loops[t].seg # NoSegment
                        => loops'[t].seg.from =
                             IF update_interval = 0 THEN loops[t].seg.from
                             ELSE (loops[t].seg.from + 1) % (PathLen - 1)]_vars

\* C22: send_position_to_traccar returns True and adds to packets_sent for
\* every response with a 2xx status, and returns False and adds to
\* packets_failed for every other status and for every network error.
C22_SuccessIsAny2xx ==
    \A t \in 1..Len(loops) :
        /\ loops[t].pc = "store_ok"
            => /\ ~loops[t].response.raised
               /\ loops[t].response.status_code \in 200..299
        /\ loops[t].pc = "store_fail"
            => \/ loops[t].response.raised
               \/ loops[t].response.status_code \notin 200..299

\* no two movement loops of the engine have ever been alive together
SingleLoop == \A t \in 1..Len(loops) : ~loops[t].shared

\* C23: send_position_to_traccar never raises: a call ends by adding to one
\* counter and returning.  As long as the engine has had a single movement
\* loop at a time, each call adds exactly one to exactly one counter,
\* packets_sent if it returns True and packets_failed if it returns False,
\* and packets_sent + packets_failed is the number of calls that returned.
C23_EachCallCountsOnce ==
    [][/\ \A t \in 1..Len(loops) :
            (loops[t].pc = "send" /\ loops'[t].pc # "send")
                => loops'[t].pc \in {"store_ok", "store_fail"}
       /\ SingleLoop' =>
            /\ packets_sent' + packets_failed' =
                 sends' - Cardinality({t \in 1..Len(loops') : InFlight(t)'})
            /\ \A t \in 1..Len(loops) :
                /\ (loops[t].pc = "store_ok" /\ loops'[t].pc = "sleep")
                    => /\ packets_sent' = packets_sent + 1
                       /\ packets_failed' = packets_failed
                /\ (loops[t].pc = "store_fail" /\ loops'[t].pc = "sleep")
                    => /\ packets_failed' = packets_failed + 1
                       /\ packets_sent' = packets_sent]_vars
\* a single loop whose calls have returned True and False
C23_Witness ==
    /\ SingleLoop /\ Len(loops) >= 1
    /\ packets_sent >= 1 /\ packets_failed >= 1
    /\ packets_sent + packets_failed = sends

\* C30: an error inside one iteration of the movement loop does not end the
\* loop: the step that raises it leaves the loop alive in the except branch
\* with is_running unchanged, the except branch then sleeps and goes back to
\* the while test, and a loop ends only at the while test, on finding
\* is_running false (so stop_simulation still ends it).
C30_ErrorIsCaught ==
    [][\A t \in 1..Len(loops) :
        /\ (loops[t].pc # "except_sleep" /\ loops'[t].pc = "except_sleep")
            => is_running' = is_running
        /\ (loops[t].pc = "except_sleep" /\ loops'[t].pc # "except_sleep")
            => loops'[t].pc = "while" /\ is_running' = is_running
        /\ (Live(t) /\ loops'[t].pc = "exited")
            => loops[t].pc = "while" /\ ~is_running]_vars

\* the host of an address
HostOf(address) ==
    CHOOSE h \in Hosts : \E k \in 1..Len(address) : address[k] = h

\* C24: for every form of the configured tracking server address (bare
\* host, with scheme, with port, with scheme and port), the URL a report is
\* sent to is http://<host>:5055: the server's host and the reporting port.
C24_UrlIsHostAndPort5055 ==
    (called = "url" /\ result # <<>>)
        => result[1] = <<"http://", HostOf(args.traccar_server), ":5055">>

\* C27: generate_circular_path with points >= 3 returns points + 1 waypoints
\* and the first and the last of them are equal, for every center and
\* radius.
C27_CircularPathIsClosed ==
    (called = "generate_circular_path" /\ result # <<>>)
        => LET waypoints == result[1]
           IN  /\ Len(waypoints) = args.points + 1
               /\ waypoints[1] = waypoints[Len(waypoints)]

\* C28: generate_route_path with points >= 2 returns points + 1 waypoints,
\* the first equal to the start point and the last equal to the end point;
\* the waypoints strictly between them are the interpolated point moved by
\* at most the variation on each axis.
C28_RouteEndpointsExact ==
    (called = "generate_route_path" /\ result # <<>>)
        => LET waypoints == result[1]
               N == args.points
           IN  /\ Len(waypoints) = N + 1
               /\ waypoints[1] = args.start
               /\ waypoints[N + 1] = args.end
               /\ \A i \in 1..(N - 1) :
                    \E v \in [lat : (-Variation)..Variation,
                              lng : (-Variation)..Variation] :
                        waypoints[i + 1] =
                            [lat |-> Float(Interpolate(args.start.lat,
                                        args.end.lat, i, N) + v.lat),
                             lng |-> Float(Interpolate(args.start.lng,
                                        args.end.lng, i, N) + v.lng)]

\* the integers nearest to the quotient n / d (two of them at a half)
Nearest(n, d) == {k \in 0..(n \div d + 1) : Abs(2 * n - 2 * k * d) <= d}

\* C29: steps_needed is max(1, round(T / update_interval)) with
\* T = distance / speed_kmh * 3600 seconds: the quotient rounded to the
\* nearest integer, and at least 1.
C29_StepsAreRounded ==
    (called = "steps_needed" /\ result # <<>>)
        => result[1] \in
             {Max(1, k) : k \in Nearest(18 * args.distance_m,
                            5 * args.speed_kmh * args.update_interval)}

\* a step leaves alone the registry entry, the processes and the temp config
\* file of every imei other than x
OthersUnchanged(x) ==
    \A y \in IMEIs \ {x} :
        /\ files'[TempFile(y)] = files[TempFile(y)]
        /\ Has(simulator_processes', y) = Has(simulator_processes, y)
        /\ Has(simulator_processes, y)
            => Get(simulator_processes', y) = Get(simulator_processes, y)
        /\ \A p \in 1..Len(procs') :
            procs'[p].imei = y => (p <= Len(procs) /\ procs'[p] = procs[p])
\* the handler of worker w takes a step
Steps(w) == pc'[w] # pc[w] \/ snap'[w] # snap[w]

\* C25: a stop of imei x (called by a client or by stop_all), a start for x
\* (which prunes a dead unit of x), the pruning of a dead unit x by status,
\* and the exit of a process of x each leave the registry entry, the
\* processes and the temp config file of every other imei unchanged.
C25_OtherUnitsUntouched ==
    [][/\ \A w \in Workers :
            /\ (Steps(w) /\ op'[w] \in {"start", "stop", "stop_all"})
                => OthersUnchanged(req'[w].imei)
            /\ (Steps(w) /\ op[w] = "status")
                => OthersUnchanged(IF snap[w] = <<>> THEN NoImei
                                   ELSE Head(snap[w]).imei)
       /\ \A p \in 1..Len(procs) :
            ((\A w \in Workers : ~Steps(w)) /\ hook_pc' = hook_pc
                    /\ procs'[p] # procs[p])
                => OthersUnchanged(procs[p].imei)]_vars
\* a stop has killed the unit of one imei and returns success while the unit
\* of another imei is registered, alive and has its config file
C25_Witness ==
    \E w \in Workers :
        /\ Returned(w, "stop") /\ ret[w] = 200
        /\ ~Polls(process[w])
        /\ \E y \in IMEIs \ {req[w].imei} :
            /\ Has(simulator_processes, y)
            /\ Polls(Get(simulator_processes, y).process)
            /\ files[TempFile(y)] # NoFile

\* C26: every supervisor operation terminates: a stop, stop_all or status
\* handler that has begun returns, and the shutdown hook that has begun ends,
\* also when a simulator process ignores the termination request.
C26_OperationsTerminate ==
    /\ \A w \in Workers :
        (Busy(w) /\ op[w] \in {"stop", "stop_all", "status"})
            ~> (pc[w] = "done")
    /\ exiting ~> (hook_pc = "done")
\* a stop has waited out the grace period of a unit that ignored terminate()
\* and has killed it
C26_Witness ==
    \E w \in Workers :
        /\ op[w] = "stop" /\ pc[w] = "stop_rmfile"
        /\ touched[w] /\ ~Polls(process[w])

\* no handler and no shutdown hook is in progress
Quiescent ==
    /\ \A w \in Workers : pc[w] \in {"idle", "done"}
    /\ hook_pc \in {"off", "done"}

\* C31: a temp config file exists for an imei only while the registry holds
\* an entry for that imei: whenever no operation is in progress (after any
\* sequence of start, stop, stop_all, status, unit deaths and the shutdown),
\* every temp config file belongs to a registered imei.
C31_NoTempFileLeaked ==
    Quiescent =>
        \A i \in IMEIs :
            files[TempFile(i)] # NoFile => Has(simulator_processes, i)

\* C32: a unit the supervisor has started (its stdout is the pipe) on a path
\* it can move along keeps handing samples to the reporter until it is
\* stopped: it reaches any number of reports (here MaxSends), never waiting
\* for ever on its own output.
C32_UnitKeepsReporting ==
    (piped /\ path >= 2 /\ Len(loops) > 0)
        ~> (stop_requested \/ sends = MaxSends)

\* C33: an engine started on a path of a single waypoint (logging to a
\* terminal) eventually hands a sample for that waypoint to the reporter,
\* unless it is stopped first.
C33_SingleWaypointReports ==
    (path = 1 /\ ~piped /\ Len(loops) > 0)
        ~> (stop_requested \/ sends >= 1)

\* C34: total_distance never decreases; it and the current position change
\* only at the end of a tick whose send succeeded; and when a loop has
\* finished a segment all of whose sends succeeded, total_distance has grown
\* since the segment was read by exactly the segment's distance, StepsNeeded
\* increments of distance / steps_needed.
C34_DistanceAccounting ==
    [][/\ total_distance' >= total_distance
       /\ (total_distance' # total_distance
                \/ current_position' # current_position)
            => \E t \in 1..Len(loops) :
                 loops[t].pc = "store_ok" /\ loops'[t].pc # "store_ok"
       /\ \A t \in 1..Len(loops) :
            ( /\ loops[t].pc = "sleep" /\ loops'[t].pc = "advance"
              /\ loops[t].distance0 # -1 )
                => total_distance' = loops[t].distance0 + StepsNeeded]_vars

\* C35: when a loop of an engine that was never stopped and whose sends all
\* succeeded restarts its path (of distinct waypoints 0..path-1) from
\* waypoint 0, every waypoint of the path, the last one included, has been
\* the waypoint a reported sample of that lap was interpolated from.
C35_EveryWaypointIsABase ==
    [][\A t \in 1..Len(loops) :
        ( /\ loops[t].pc = "while" /\ loops'[t].pc # "while"
          /\ is_running /\ ~stop_requested /\ packets_failed = 0
          /\ path >= 2 /\ current_position_index >= path - 1 )
            => bases = 0..(path - 1)]_vars

\* get_status, lines 357-378: the 'is_running' it reports
get_status == [is_running |-> is_running]

\* C36: whenever get_status reports is_running = true, a thread running the
\* movement loop of the engine is alive; an engine started on an empty path
\* is not reported as running with no loop.
C36_RunningHasALoop ==
    get_status.is_running => \E t \in 1..Len(loops) : Live(t)

\* the uniqueId the device directory holds for each device it knows
\* (the device get_device_by_id returns, src/app.py:257-270 and 1487)
uniqueId == [d \in KnownDevices |-> "i1"]
\* the registered units of device d whose process is alive
LiveUnits(d) ==
    {k \in 1..Len(simulator_processes) :
        /\ simulator_processes[k].device_name = d
        /\ Polls(simulator_processes[k].process)}

\* C37: every registry entry is keyed by the uniqueId of the device the
\* directory returned for the device id of its start request, so no two
\* live units are registered at once for one device of the directory.
C37_KeyIsDirectoryHardwareId ==
    /\ \A k \in 1..Len(simulator_processes) :
            simulator_processes[k].imei =
                uniqueId[simulator_processes[k].device_name]
    /\ \A d \in KnownDevices : Cardinality(LiveUnits(d)) <= 1

\* C38: a stop for an imei that runs while the only other requests served
\* are stops and status calls returns success or 404, never an internal
\* error; and once it has returned and no other request is in progress, the
\* registry entry and the temp config file of that imei are gone.
C38_ConcurrentStopIsClean ==
    \A w \in Workers :
        ( /\ Returned(w, "stop") /\ req[w].imei \in IMEIs /\ ~exiting
          /\ \A x \in Workers \ {w} : op[x] \in {"none", "stop", "status"} )
        => /\ ret[w] \in {200, 404}
           /\ (\A x \in Workers \ {w} : ~Busy(x))
                => /\ ~Has(simulator_processes, req[w].imei)
                   /\ files[TempFile(req[w].imei)] = NoFile

\* the range a travel mode keeps the suggested speed in, in km/h
SpeedRange ==
    [m \in {"driving", "walking", "bicycling"} |->
        IF m = "driving" THEN [lo |-> 20, hi |-> 130]
        ELSE IF m = "walking" THEN [lo |-> 3, hi |-> 8]
        ELSE [lo |-> 10, hi |-> 25]]
Same(x, y) == Leq(x, y) /\ Leq(y, x)

\* C39: for every average speed create_simulator_path computes from a
\* route, the suggested speed is that speed brought into [20, 130] km/h for
\* driving, [3, 8] for walking and [10, 25] for bicycling (the speed itself
\* when it lies in the range, the nearer end of the range otherwise), and
\* the speed itself for any other mode; and the movement loop computes
\* steps_needed from the speed_kmh it is given, whatever its value.
C39_SpeedClampedByMode ==
    /\ (called = "create_simulator_path" /\ result # <<>>
            /\ ~result[1].raised)
        => LET avg == [n |-> 18 * args.route_info.total_distance_meters,
                       d |-> 5 * args.route_info.total_duration_seconds]
               v == result[1].suggested_speed_kmh
               m == args.travel_mode
           IN  IF m \in DOMAIN SpeedRange
               THEN LET lo == Whole(SpeedRange[m].lo)
                        hi == Whole(SpeedRange[m].hi)
                    IN  /\ Leq(lo, v) /\ Leq(v, hi)
                        /\ (Leq(lo, avg) /\ Leq(avg, hi)) => Same(v, avg)
                        /\ ~Leq(lo, avg) => Same(v, lo)
                        /\ ~Leq(avg, hi) => Same(v, hi)
               ELSE Same(v, avg)
    /\ (called = "steps_needed" /\ result # <<>>)
        => result[1] =
            Max(1, (18 * args.distance_m)
                    \div (5 * args.speed_kmh * args.update_interval))
\* a driving route faster than 130 km/h has been brought down to 130
C39_Witness ==
    /\ called = "create_simulator_path" /\ result # <<>>
    /\ args.travel_mode = "driving"
    /\ args.route_info.total_distance_meters = 10000
    /\ args.route_info.total_duration_seconds = 60
    /\ result[1].suggested_speed_kmh = Whole(130)
====
